---- MODULE Spec2Model ----
(***************************************************************************)
(* Motion event orchestrator of homebridge-camera-ui                       *)
(* (src/server/services/handler.service.js, MotionHandler.handle) together *)
(* with the session gate it consumes.  Every `await` of handle() is a      *)
(* point where other calls may run; the code between two awaits is one     *)
(* atomic action.                                                          *)
(***************************************************************************)
EXTENDS Integers, Sequences, FiniteSets, TLC

\* ------------------------------------------------------------------ bounds
\* Number of handle() invocations that may be pending at the same time.
NumCalls == 2
\* Configured maximum of concurrent sessions per camera (session gate).
MaxSessions == 1
\* Live viewers per camera that may hold a session at the same time.
MaxViewers == 1
\* Configured monthly detection quota (SettingsDB.aws.contingent_total).
ContingentTotal == 1

Calls == 1..NumCalls
\* Cameras present in the camera database.
Cameras == {"front"}
\* A camera name that is in no database (findByName resolves to undefined).
Unknown == "ghost"
Names == Cameras \cup {Unknown}

\* --------------------------------------------------------------- messages
MsgNotFound == "Camera not found."
MsgAtHome == "Skip motion trigger. At Home is active."
MsgBusy == "Can not handle movement, another movement currently in progress for this camera."
MsgMaxSessions == "Max sessions exceeded."
MsgNoLabel == "Skip handling movement. Configured label not detected."
MsgSent == "Notification sent."
MsgVideo == "Notification send and video stored."
MsgSnapshot == "Notification send and snapshot stored."
Undefined == "undefined"

\* error.message of the exception each collaborator may throw
ErrFindByName == "findByName failed"
ErrShow == "show failed"
ErrMotionInfo == "nanoid failed"
ErrSnapshot == "requestSnapshot failed"
ErrNotification == "createNotification failed"
ErrRecording == "createRecording failed"

VARIABLES
    movementHandler,  \* per camera name: the busy flag
    sessionCount,     \* session gate: granted and not yet closed sessions per name
    viewers,          \* live viewers per camera holding a session
    aws,              \* persisted quota: contingent_total, contingent_left,
                      \* last_rekognition
    pc,               \* per call: the await handle() is suspended at
    cam,              \* per call: cameraName argument
    acquired,         \* per call: passed the busy check (line 88)
    granted,          \* per call: requestSession returned true (line 93)
    recording,        \* per call: recordingSettings.active (line 59)
    awsLeft,          \* per call: awsSettings.contingent_left (line 48)
    label,            \* per call: motionInfo.label / detected
    steps,            \* per call: collaborator invocations so far, in order
    failed,           \* per call: delivery channels whose send failed
    thrown,           \* per call: message of the exception that was caught
    closed,           \* per call: closeSession invoked by this call
    result            \* per call: errorState ("true", "false" or undefined)
                      \* and errorMessage

\* Prebuffer store (src/unnamed/part_001, class PreBuffer).  Atoms are named
\* by their position in the encoder's output; times are in milliseconds.
VARIABLES
    startPc,          \* start(): "idle", "running", "done" or "failed" (rejected)
    startIdx,         \* start(): position in config.cameras of the camera being started
    startError,       \* start(): what the promise of start() was rejected with
    initialised,      \* cameras whose prebuffer[camera.name] object exists (line 21)
    prebufferSession, \* per camera: prebufferSession is set (line 39)
    encoder,          \* per camera: the spawned encoder process (line 130)
    listener,         \* per camera: the ingress server fmp4OutputServer (line 69)
    stopped,          \* cameras stop() has been called for
    upstream,         \* connection of the encoder to the ingress server
    now,              \* Date.now()
    ingested,         \* number of atoms the parser has yielded so far
    time,             \* cameraOptions.time
    ftyp,             \* cameraOptions.ftyp (0: null)
    moov,             \* cameraOptions.moov (0: null)
    prevIdr,          \* cameraOptions.prevIdr
    idrInterval,      \* cameraOptions.idrInterval
    prebufferFmp4,    \* cameraOptions.prebufferFmp4: sequence of {atom, time}
    atomListeners,    \* live-view connections subscribed to 'atom'
    killedListeners,  \* live-view connections subscribed to 'killed'
    socket,           \* per live-view request: "idle", "listening", "expired",
                      \* "open" or "destroyed"
    written,          \* per live-view request: atoms written to its socket
    acceptedAt,       \* per live-view request: atoms ingested before it was accepted
    replayed,         \* per live-view request: atoms written while accepting
    closedAt          \* per live-view request: atoms ingested before its cleanup

pbVars == <<startPc, startIdx, startError, initialised, prebufferSession, encoder, listener,
            stopped, upstream, now, ingested, time, ftyp, moov, prevIdr, idrInterval,
            prebufferFmp4, atomListeners, killedListeners, socket, written,
            acceptedAt, replayed, closedAt>>

shared == <<movementHandler, sessionCount, viewers, aws>>
local == <<pc, cam, acquired, granted, recording, awsLeft, label, steps, failed,
           thrown, closed, result>>
handlerVars == <<movementHandler, sessionCount, viewers, aws, pc, cam, acquired,
                 granted, recording, awsLeft, label, steps, failed, thrown, closed,
                 result>>
vars == <<handlerVars, pbVars>>

NoResult == [error |-> Undefined, message |-> Undefined]

\* ------------------------------------------------------------ session gate
\* requestSession(camera): granted iff the count is below the maximum.
requestSession(count, name) == count[name] < MaxSessions

\* closeSession(camera): releases one session, floor at zero.
closeSession(count, name) ==
    [count EXCEPT ![name] = IF @ > 0 THEN @ - 1 ELSE 0]

\* ------------------------------------------------------------------- Init
\* Bounds of the prebuffer store.
\* Number of getVideo() requests.
NumRequests == 2
\* Number of atoms the encoder delivers.
MaxAtoms == 6
\* Last clock reading, in milliseconds.
MaxNow == 400
\* config.prebuffering.videoDuration, in milliseconds.
VideoDuration == 100
\* The eviction grace of line 102, in milliseconds.
Grace == 100
\* The clock is read in steps of this many milliseconds.
ClockStep == 100

Requests == 1..NumRequests
\* config.cameras, in configuration order.
ConfigCameras == <<"front", "back">>
\* Position in config.cameras of the camera whose ingestion and live views are
\* followed.
Streamed == 1

InitGate ==
    /\ movementHandler = [n \in Names |-> FALSE]
    /\ sessionCount = [n \in Names |-> 0]
    /\ viewers = [n \in Cameras |-> 0]

InitCalls ==
    /\ pc = [c \in Calls |-> "idle"]
    /\ cam = [c \in Calls |-> Undefined]
    /\ acquired = [c \in Calls |-> FALSE]
    /\ granted = [c \in Calls |-> FALSE]
    /\ recording = [c \in Calls |-> FALSE]
    /\ awsLeft = [c \in Calls |-> 0]
    /\ label = [c \in Calls |-> Undefined]
    /\ steps = [c \in Calls |-> <<>>]
    /\ failed = [c \in Calls |-> {}]
    /\ thrown = [c \in Calls |-> Undefined]
    /\ closed = [c \in Calls |-> FALSE]
    /\ result = [c \in Calls |-> NoResult]

\* Line 14: prebuffer = {}; nothing is started, no request is made.
InitPrebuffer ==
    /\ startPc = "idle"
    /\ startIdx = 1
    /\ startError = Undefined
    /\ initialised = {}
    /\ prebufferSession = [i \in DOMAIN ConfigCameras |-> FALSE]
    /\ encoder = [i \in DOMAIN ConfigCameras |-> "none"]
    /\ listener = [i \in DOMAIN ConfigCameras |-> "none"]
    /\ stopped = {}
    /\ upstream = "none"
    /\ now = ClockStep
    /\ ingested = 0
    /\ time = 0
    /\ ftyp = 0
    /\ moov = 0
    /\ prevIdr = 0
    /\ idrInterval = 0
    /\ prebufferFmp4 = <<>>
    /\ atomListeners = {}
    /\ killedListeners = {}
    /\ socket = [v \in Requests |-> "idle"]
    /\ written = [v \in Requests |-> <<>>]
    /\ acceptedAt = [v \in Requests |-> 0]
    /\ replayed = [v \in Requests |-> 0]
    /\ closedAt = [v \in Requests |-> 0]

Init ==
    /\ InitGate
    /\ aws = [contingent_total |-> ContingentTotal,
              contingent_left |-> ContingentTotal, last_rekognition |-> "none"]
    /\ InitCalls
    /\ InitPrebuffer

\* ------------------------------------------------------- helper operators
\* Line 84: the trigger is handled unless at-home is active and the camera is
\* not excluded.
atHomeAllows(atHome, exclude, name) ==
    (~atHome) \/ (atHome /\ name \in exclude)

\* Lines 48-54: the quota available to this handling.  last_rekognition is
\* kept relative to the current date: "none" (unset), "this" (within the
\* current calendar month) or "prev" (an earlier month).
contingentLeft(a) ==
    IF a.last_rekognition # "none"
    THEN IF a.last_rekognition = "this"
         THEN IF a.contingent_left >= 0 THEN a.contingent_left ELSE a.contingent_total
         ELSE a.contingent_total
    ELSE a.contingent_total

\* Lines 99-102: whether the detection service is consulted.
detectionGate(awsActive, left, rekognitionActive) ==
    awsActive /\ aws.contingent_total > 0 /\ left > 0 /\ rekognitionActive

\* Line 112: a label, or no detection at all, lets the event proceed.
\* Labels are "null" (detection not consulted), "false" (nothing matched) or
\* the name of the detected label.
labelAllows(l) == (l # "false" /\ l # Undefined /\ l # "null") \/ l = "null"

\* Line 87: the busy check.  Variant: a check that never sees the flag.
isBusyNever(name) == FALSE

isBusy(name) == movementHandler[name]

\* Lines 137-143: the outcome message of a stored recording.
storedMessage(type) == IF type = "Video" THEN MsgVideo ELSE MsgSnapshot

\* Lines 196-202: clear the busy flag, release the session slot, return.
Return(c, errorState, errorMessage) ==
    /\ movementHandler' = [movementHandler EXCEPT ![cam[c]] = FALSE]
    /\ sessionCount' = closeSession(sessionCount, cam[c])
    /\ closed' = [closed EXCEPT ![c] = TRUE]
    /\ result' = [result EXCEPT ![c] = [error |-> errorState, message |-> errorMessage]]
    /\ pc' = [pc EXCEPT ![c] = "returned"]

\* Lines 188-194: the top-level catch, followed by the common exit.
\* Variants: the release placed inside the try block, so that an exception
\* skips it; a catch that does not set errorState; a catch that reports a
\* fixed text instead of error.message.
CatchSkipsRelease(c, message) ==
    /\ thrown' = [thrown EXCEPT ![c] = message]
    /\ result' = [result EXCEPT ![c] = [error |-> "true", message |-> message]]
    /\ pc' = [pc EXCEPT ![c] = "returned"]
    /\ UNCHANGED <<movementHandler, sessionCount, closed>>

CatchKeepsErrorState(c, message) ==
    /\ thrown' = [thrown EXCEPT ![c] = message]
    /\ Return(c, result[c].error, message)

CatchFixedMessage(c, message) ==
    /\ thrown' = [thrown EXCEPT ![c] = message]
    /\ Return(c, "true", "An error occured during handling motion event")

Catch(c, message) ==
    /\ thrown' = [thrown EXCEPT ![c] = message]
    /\ Return(c, "true", message)

\* One more collaborator invocation of call c.
invoke(c, step) == [steps EXCEPT ![c] = Append(@, step)]

\* --------------------------------------------------------------- handle()
\* Lines 24-31: handle(trigger, cameraName, active) is called and suspends at
\* the camera lookup.
Handle(c) ==
    /\ pc[c] = "idle"
    /\ \E n \in Names : cam' = [cam EXCEPT ![c] = n]
    /\ pc' = [pc EXCEPT ![c] = "findByName"]
    /\ UNCHANGED <<shared, acquired, granted, recording, awsLeft, label, steps,
                   failed, thrown, closed, result>>
    /\ UNCHANGED pbVars

\* Lines 30-37 and 184-187: the lookup resolves.  A lookup failure is caught
\* and logged (lines 32-34) and leaves Camera undefined.
FindByName(c) ==
    /\ pc[c] = "findByName"
    /\ \E out \in (IF cam[c] \in Cameras THEN {"found", "throws"}
                                          ELSE {"undefined", "throws"}) :
          IF out = "found"
          THEN /\ pc' = [pc EXCEPT ![c] = "show"]
               /\ UNCHANGED <<shared, thrown, closed, result>>
          ELSE /\ thrown' = [thrown EXCEPT ![c] =
                                IF out = "throws" THEN ErrFindByName ELSE @]
               /\ Return(c, "true", MsgNotFound)
               /\ UNCHANGED <<viewers, aws>>
    /\ UNCHANGED <<cam, acquired, granted, recording, awsLeft, label, steps, failed>>
    /\ UNCHANGED pbVars

\* Lines 37-90 and 168-183: the settings are loaded; at-home check, busy
\* check, lock acquisition.
Show(c) ==
    /\ pc[c] = "show"
    /\ \/ /\ Catch(c, ErrShow)
          /\ UNCHANGED <<viewers, aws, acquired, recording, awsLeft>>
       \/ \E atHome \in BOOLEAN, exclude \in SUBSET Cameras,
             active \in BOOLEAN :
             IF ~atHomeAllows(atHome, exclude, cam[c])
             THEN /\ Return(c, "true", MsgAtHome)
                  /\ UNCHANGED <<viewers, aws, acquired, recording, awsLeft, thrown>>
             ELSE IF isBusy(cam[c])
             THEN /\ Return(c, "true", MsgBusy)
                  /\ UNCHANGED <<viewers, aws, acquired, recording, awsLeft, thrown>>
             ELSE /\ movementHandler' = [movementHandler EXCEPT ![cam[c]] = TRUE]
                  /\ acquired' = [acquired EXCEPT ![c] = TRUE]
                  /\ recording' = [recording EXCEPT ![c] = active]
                  /\ awsLeft' = [awsLeft EXCEPT ![c] = contingentLeft(aws)]
                  /\ pc' = [pc EXCEPT ![c] = "getMotionInfo"]
                  /\ UNCHANGED <<sessionCount, viewers, aws, thrown, closed, result>>
    /\ UNCHANGED <<cam, granted, label, steps, failed>>
    /\ UNCHANGED pbVars

\* Lines 90-96 and 154-159: the motion info is built; with recording active a
\* session is requested, otherwise the notification record is created.
\* Variant: the answer of the session gate is not looked at.
GetMotionInfoIgnoresGate(c) ==
    /\ pc[c] = "getMotionInfo"
    /\ \/ /\ Catch(c, ErrMotionInfo)
          /\ UNCHANGED <<viewers, aws, granted, steps>>
       \/ IF recording[c]
          THEN /\ sessionCount' = [sessionCount EXCEPT ![cam[c]] =
                                      IF requestSession(sessionCount, cam[c])
                                      THEN @ + 1 ELSE @]
               /\ granted' = [granted EXCEPT ![c] = requestSession(sessionCount, cam[c])]
               /\ steps' = invoke(c, "snapshot")
               /\ pc' = [pc EXCEPT ![c] = "handleSnapshot"]
               /\ UNCHANGED <<movementHandler, viewers, aws, thrown, closed, result>>
          ELSE /\ steps' = invoke(c, "notification")
               /\ pc' = [pc EXCEPT ![c] = "handleNotification"]
               /\ UNCHANGED <<shared, granted, thrown, closed, result>>
    /\ UNCHANGED <<cam, acquired, recording, awsLeft, label, failed>>
    /\ UNCHANGED pbVars

GetMotionInfo(c) ==
    /\ pc[c] = "getMotionInfo"
    /\ \/ /\ Catch(c, ErrMotionInfo)
          /\ UNCHANGED <<viewers, aws, granted, steps>>
       \/ IF recording[c]
          THEN IF requestSession(sessionCount, cam[c])
               THEN /\ sessionCount' = [sessionCount EXCEPT ![cam[c]] = @ + 1]
                    /\ granted' = [granted EXCEPT ![c] = TRUE]
                    /\ steps' = invoke(c, "snapshot")
                    /\ pc' = [pc EXCEPT ![c] = "handleSnapshot"]
                    /\ UNCHANGED <<movementHandler, viewers, aws, thrown, closed, result>>
               ELSE /\ Return(c, "false", MsgMaxSessions)
                    /\ UNCHANGED <<viewers, aws, granted, steps, thrown>>
          ELSE /\ steps' = invoke(c, "notification")
               /\ pc' = [pc EXCEPT ![c] = "handleNotification"]
               /\ UNCHANGED <<shared, granted, thrown, closed, result>>
    /\ UNCHANGED <<cam, acquired, recording, awsLeft, label, failed>>
    /\ UNCHANGED pbVars

\* Lines 96-110: the snapshot is taken; the detection service is consulted
\* only behind the gate, and only with credentials (line 226); without them
\* handleImageDetection fails on `detected.length` and resolves to false.
HandleSnapshot(c) ==
    /\ pc[c] = "handleSnapshot"
    /\ \/ /\ Catch(c, ErrSnapshot)
          /\ UNCHANGED <<viewers, aws, label, steps>>
       \/ \E awsActive \in BOOLEAN, rekognitionActive \in BOOLEAN,
             credentials \in BOOLEAN :
             IF detectionGate(awsActive, awsLeft[c], rekognitionActive)
             THEN /\ steps' = invoke(c, "detection")
                  /\ IF credentials
                     THEN /\ pc' = [pc EXCEPT ![c] = "detectLabels"]
                          /\ UNCHANGED label
                     ELSE /\ pc' = [pc EXCEPT ![c] = "handleImageDetection"]
                          /\ label' = [label EXCEPT ![c] = "false"]
                  /\ UNCHANGED <<shared, thrown, closed, result>>
             ELSE /\ label' = [label EXCEPT ![c] = "null"]
                  /\ steps' = invoke(c, "notification")
                  /\ pc' = [pc EXCEPT ![c] = "handleNotification"]
                  /\ UNCHANGED <<shared, thrown, closed, result>>
    /\ UNCHANGED <<cam, acquired, granted, recording, awsLeft, failed>>
    /\ UNCHANGED pbVars

\* Lines 232-253: the detection service answers; a failure is caught at
\* line 259 and yields false, a success is followed by the quota patch.
DetectLabels(c) ==
    /\ pc[c] = "detectLabels"
    /\ \E out \in {"person", "false", "throws"} :
          IF out = "throws"
          THEN /\ label' = [label EXCEPT ![c] = "false"]
               /\ pc' = [pc EXCEPT ![c] = "handleImageDetection"]
          ELSE /\ label' = [label EXCEPT ![c] = out]
               /\ pc' = [pc EXCEPT ![c] = "handleAWS"]
    /\ UNCHANGED <<shared, cam, acquired, granted, recording, awsLeft, steps, failed,
                   thrown, closed, result>>
    /\ UNCHANGED pbVars

\* Lines 250-253 without the decrement.
patchKeepsLeft(left) ==
    [aws EXCEPT !.contingent_left = left, !.last_rekognition = "this"]

\* Lines 250-253 and 267-269: the patch of the persisted quota, left being
\* the quota available to the handling (aws.contingent_left of line 251).
patchByTarget(left) ==
    [aws EXCEPT !.contingent_left = left - 1, !.last_rekognition = "this"]

\* Lines 250-265: the quota patch is written; if the write fails the catch
\* at line 259 turns the result into false.
HandleAWS(c) ==
    /\ pc[c] = "handleAWS"
    /\ \/ /\ aws' = patchByTarget(awsLeft[c])
          /\ UNCHANGED label
       \/ /\ label' = [label EXCEPT ![c] = "false"]
          /\ UNCHANGED aws
    /\ pc' = [pc EXCEPT ![c] = "handleImageDetection"]
    /\ UNCHANGED <<movementHandler, sessionCount, viewers, cam, acquired, granted,
                   recording, awsLeft, steps, failed, thrown, closed, result>>
    /\ UNCHANGED pbVars

\* Lines 98-113 and 146-153: handleImageDetection has resolved.
HandleImageDetection(c) ==
    /\ pc[c] = "handleImageDetection"
    /\ IF labelAllows(label[c])
       THEN /\ steps' = invoke(c, "notification")
            /\ pc' = [pc EXCEPT ![c] = "handleNotification"]
            /\ UNCHANGED <<shared, closed, result>>
       ELSE /\ Return(c, "true", MsgNoLabel)
            /\ UNCHANGED <<viewers, aws, steps>>
    /\ UNCHANGED <<cam, acquired, granted, recording, awsLeft, label, failed, thrown>>
    /\ UNCHANGED pbVars

\* Lines 113-114 and 159-161: the notification record is created, the
\* webhook is sent next.
HandleNotification(c) ==
    /\ pc[c] = "handleNotification"
    /\ \/ /\ Catch(c, ErrNotification)
          /\ UNCHANGED <<viewers, aws, steps>>
       \/ /\ steps' = invoke(c, "webhook")
          /\ pc' = [pc EXCEPT ![c] = "sendWebhook"]
          /\ UNCHANGED <<shared, thrown, closed, result>>
    /\ UNCHANGED <<cam, acquired, granted, recording, awsLeft, label, failed>>
    /\ UNCHANGED pbVars

\* Lines 336-359, then 116 or 162: sendWebhook resolves whether or not the
\* POST failed (catch at line 355); the chat notification is sent next.
\* Variant: sendWebhook without its try/catch, a failed POST reaches the
\* top-level catch.
SendWebhookThrows(c) ==
    /\ pc[c] = "sendWebhook"
    /\ \/ /\ failed' = [failed EXCEPT ![c] = @ \cup {"webhook"}]
          /\ Catch(c, "POST failed")
          /\ UNCHANGED <<viewers, aws, steps>>
       \/ /\ steps' = invoke(c, IF recording[c] THEN "chatImage" ELSE "chat")
          /\ pc' = [pc EXCEPT ![c] = "sendTelegram"]
          /\ UNCHANGED <<shared, failed, thrown, closed, result>>
    /\ UNCHANGED <<cam, acquired, granted, recording, awsLeft, label>>
    /\ UNCHANGED pbVars

SendWebhook(c) ==
    /\ pc[c] = "sendWebhook"
    /\ \E ok \in BOOLEAN :
          failed' = [failed EXCEPT ![c] = IF ok THEN @ ELSE @ \cup {"webhook"}]
    /\ steps' = invoke(c, IF recording[c] THEN "chatImage" ELSE "chat")
    /\ pc' = [pc EXCEPT ![c] = "sendTelegram"]
    /\ UNCHANGED <<shared, cam, acquired, granted, recording, awsLeft, label, thrown,
                   closed, result>>
    /\ UNCHANGED pbVars

\* Lines 283-334, then 125 or 163: sendTelegram resolves whether or not the
\* send failed (catch at line 330); then the recording is persisted, or,
\* without recording, the push notification is sent.
\* Variant: handleRecording is not awaited, the video chat notification is
\* sent before the recording is persisted.
SendTelegramBeforeRecording(c) ==
    /\ pc[c] = "sendTelegram"
    /\ \E ok \in BOOLEAN :
          failed' = [failed EXCEPT ![c] =
                        IF ok THEN @
                        ELSE @ \cup {IF recording[c] THEN "chatImage" ELSE "chat"}]
    /\ IF recording[c]
       THEN /\ steps' = invoke(c, "chatVideo")
            /\ pc' = [pc EXCEPT ![c] = "handleRecording"]
       ELSE /\ steps' = invoke(c, "push")
            /\ pc' = [pc EXCEPT ![c] = "sendWebpush"]
    /\ UNCHANGED <<shared, cam, acquired, granted, recording, awsLeft, label, thrown,
                   closed, result>>
    /\ UNCHANGED pbVars

SendTelegram(c) ==
    /\ pc[c] = "sendTelegram"
    /\ \E ok \in BOOLEAN :
          failed' = [failed EXCEPT ![c] =
                        IF ok THEN @
                        ELSE @ \cup {IF recording[c] THEN "chatImage" ELSE "chat"}]
    /\ IF recording[c]
       THEN /\ steps' = invoke(c, "recording")
            /\ pc' = [pc EXCEPT ![c] = "handleRecording"]
       ELSE /\ steps' = invoke(c, "push")
            /\ pc' = [pc EXCEPT ![c] = "sendWebpush"]
    /\ UNCHANGED <<shared, cam, acquired, granted, recording, awsLeft, label, thrown,
                   closed, result>>
    /\ UNCHANGED pbVars

\* Lines 125-135: the recording is persisted; the second chat notification is
\* sent next.
HandleRecording(c) ==
    /\ pc[c] = "handleRecording"
    /\ \/ /\ Catch(c, ErrRecording)
          /\ UNCHANGED <<viewers, aws, steps>>
       \/ /\ steps' = invoke(c, "chatVideo")
          /\ pc' = [pc EXCEPT ![c] = "sendTelegramVideo"]
          /\ UNCHANGED <<shared, thrown, closed, result>>
    /\ UNCHANGED <<cam, acquired, granted, recording, awsLeft, label, failed>>
    /\ UNCHANGED pbVars

\* Lines 127-145: the second sendTelegram resolves; the outcome is set from
\* recordingSettings.type (read at line 62, first used here) and the push
\* notification is sent.
SendTelegramVideo(c) ==
    /\ pc[c] = "sendTelegramVideo"
    /\ \E ok \in BOOLEAN :
          failed' = [failed EXCEPT ![c] = IF ok THEN @ ELSE @ \cup {"chatVideo"}]
    /\ \E type \in {"Video", "Snapshot"} :
          result' = [result EXCEPT ![c] =
                        [error |-> "false", message |-> storedMessage(type)]]
    /\ steps' = invoke(c, "push")
    /\ pc' = [pc EXCEPT ![c] = "sendWebpush"]
    /\ UNCHANGED <<shared, cam, acquired, granted, recording, awsLeft, label, thrown,
                   closed>>
    /\ UNCHANGED pbVars

\* Lines 361-384, then 145 or 163-166, then 196-202: sendWebpush resolves
\* whether or not the push failed; handle() returns.
SendWebpush(c) ==
    /\ pc[c] = "sendWebpush"
    /\ \E ok \in BOOLEAN :
          failed' = [failed EXCEPT ![c] = IF ok THEN @ ELSE @ \cup {"push"}]
    /\ IF recording[c]
       THEN Return(c, result[c].error, result[c].message)
       ELSE Return(c, "false", MsgSent)
    /\ UNCHANGED <<viewers, aws, cam, acquired, granted, recording, awsLeft, label,
                   steps, thrown>>
    /\ UNCHANGED pbVars

\* The caller has taken the returned value; the slot is free for a new call.
Resolve(c) ==
    /\ pc[c] = "returned"
    /\ pc' = [pc EXCEPT ![c] = "idle"]
    /\ cam' = [cam EXCEPT ![c] = Undefined]
    /\ acquired' = [acquired EXCEPT ![c] = FALSE]
    /\ granted' = [granted EXCEPT ![c] = FALSE]
    /\ recording' = [recording EXCEPT ![c] = FALSE]
    /\ awsLeft' = [awsLeft EXCEPT ![c] = 0]
    /\ label' = [label EXCEPT ![c] = Undefined]
    /\ steps' = [steps EXCEPT ![c] = <<>>]
    /\ failed' = [failed EXCEPT ![c] = {}]
    /\ thrown' = [thrown EXCEPT ![c] = Undefined]
    /\ closed' = [closed EXCEPT ![c] = FALSE]
    /\ result' = [result EXCEPT ![c] = NoResult]
    /\ UNCHANGED shared
    /\ UNCHANGED pbVars

\* ------------------------------------------------------------ environment
\* A live viewer asks the session gate for a session of camera n.
ViewerOpen(n) ==
    /\ viewers[n] < MaxViewers
    /\ requestSession(sessionCount, n)
    /\ sessionCount' = [sessionCount EXCEPT ![n] = @ + 1]
    /\ viewers' = [viewers EXCEPT ![n] = @ + 1]
    /\ UNCHANGED <<movementHandler, aws, local>>
    /\ UNCHANGED pbVars

\* A live viewer ends and closes its session.
ViewerClose(n) ==
    /\ viewers[n] > 0
    /\ sessionCount' = closeSession(sessionCount, n)
    /\ viewers' = [viewers EXCEPT ![n] = @ - 1]
    /\ UNCHANGED <<movementHandler, aws, local>>
    /\ UNCHANGED pbVars

\* The calendar month changes: a last_rekognition of the current month
\* becomes one of an earlier month.
MonthChange ==
    /\ aws.last_rekognition = "this"
    /\ aws' = [aws EXCEPT !.last_rekognition = "prev"]
    /\ UNCHANGED <<movementHandler, sessionCount, viewers, local>>
    /\ UNCHANGED pbVars

Next ==
    \/ \E c \in Calls : Handle(c)
    \/ \E c \in Calls : FindByName(c)
    \/ \E c \in Calls : Show(c)
    \/ \E c \in Calls : GetMotionInfo(c)
    \/ \E c \in Calls : HandleSnapshot(c)
    \/ \E c \in Calls : DetectLabels(c)
    \/ \E c \in Calls : HandleAWS(c)
    \/ \E c \in Calls : HandleImageDetection(c)
    \/ \E c \in Calls : HandleNotification(c)
    \/ \E c \in Calls : SendWebhook(c)
    \/ \E c \in Calls : SendTelegram(c)
    \/ \E c \in Calls : HandleRecording(c)
    \/ \E c \in Calls : SendTelegramVideo(c)
    \/ \E c \in Calls : SendWebpush(c)
    \/ \E c \in Calls : Resolve(c)
    \/ \E n \in Cameras : ViewerOpen(n)
    \/ \E n \in Cameras : ViewerClose(n)
    \/ MonthChange

Spec == Init /\ [][Next]_vars

\* Every continuation of call c after the call was made: what the event loop
\* runs once the awaited collaborator has answered.
Step(c) ==
    \/ FindByName(c) \/ Show(c) \/ GetMotionInfo(c) \/ HandleSnapshot(c)
    \/ DetectLabels(c) \/ HandleAWS(c) \/ HandleImageDetection(c)
    \/ HandleNotification(c) \/ SendWebhook(c) \/ SendTelegram(c)
    \/ HandleRecording(c) \/ SendTelegramVideo(c) \/ SendWebpush(c)

\* The motion handler alone: calls are made, resumed and taken back.
NextHandler ==
    \/ \E c \in Calls : Handle(c)
    \/ \E c \in Calls : Step(c)
    \/ \E c \in Calls : Resolve(c)

\* Every awaited collaborator eventually answers, so every pending call is
\* eventually resumed.
FairSpec == Init /\ [][NextHandler]_vars /\ \A c \in Calls : WF_vars(Step(c))

\* The scenario of handle() called twice concurrently and once more later:
\* two call slots, reused only when every call of the round has returned.
Twice == {1, 2}

ResolveRound(c) ==
    /\ \A d \in Calls : pc[d] \in {"idle", "returned"}
    /\ Resolve(c)

NextTwice ==
    \/ \E c \in Twice : Handle(c)
    \/ \E c \in Twice : FindByName(c)
    \/ \E c \in Twice : Show(c)
    \/ \E c \in Twice : GetMotionInfo(c)
    \/ \E c \in Twice : HandleSnapshot(c)
    \/ \E c \in Twice : DetectLabels(c)
    \/ \E c \in Twice : HandleAWS(c)
    \/ \E c \in Twice : HandleImageDetection(c)
    \/ \E c \in Twice : HandleNotification(c)
    \/ \E c \in Twice : SendWebhook(c)
    \/ \E c \in Twice : SendTelegram(c)
    \/ \E c \in Twice : HandleRecording(c)
    \/ \E c \in Twice : SendTelegramVideo(c)
    \/ \E c \in Twice : SendWebpush(c)
    \/ \E c \in Twice : ResolveRound(c)
    \/ \E n \in Cameras : ViewerOpen(n)
    \/ \E n \in Cameras : ViewerClose(n)
    \/ MonthChange

TwiceSpec == Init /\ [][NextTwice]_vars

\* ------------------------------------------------------------- properties
\* Call c passed the busy check and has not returned yet.
InFlight(c) == acquired[c] /\ pc[c] # "returned"

\* The accepted handlings of camera n that are in flight.
Handling(n) == {c \in Calls : InFlight(c) /\ cam[c] = n}

\* C1: for every camera, at most one accepted motion handling (a call that
\* passed the busy check and has not yet returned) is in flight at any time.
C1_AtMostOneInFlight == \A n \in Names : Cardinality(Handling(n)) <= 1

\* C2: in the scenario of two concurrent calls and a later third one, a call
\* that reaches the busy check while another handling of its camera is in
\* flight returns the "another movement currently in progress" outcome with
\* error = true, and a call that reaches it when no handling of the camera is
\* in flight (the first has returned) is accepted and proceeds; in both cases
\* unless the settings load fails or at-home skips the trigger.
C2_SecondRejectedThirdAccepted ==
    [][\A c \in Calls :
          (pc[c] = "show" /\ pc'[c] # "show"
             /\ result'[c].message \notin {MsgAtHome, ErrShow})
          => IF Handling(cam[c]) # {}
             THEN /\ pc'[c] = "returned"
                  /\ result'[c] = [error |-> "true", message |-> MsgBusy]
                  /\ ~acquired'[c]
                  /\ \A d \in Handling(cam[c]) : InFlight(d)'
             ELSE /\ pc'[c] = "getMotionInfo"
                  /\ acquired'[c]
                  /\ movementHandler'[cam[c]]]_vars

\* C2 witness: a call has returned the busy outcome while the handling that
\* holds the lock is still pending.
C2_Witness ==
    \E c, d \in Calls :
        /\ pc[c] = "returned" /\ result[c].message = MsgBusy
        /\ InFlight(d) /\ cam[d] = cam[c]

\* C3: every call that acquired the busy flag eventually returns, with the
\* busy flag of its camera cleared and closeSession invoked, on every branch.
C3_AlwaysReleased ==
    /\ \A c \in Calls : InFlight(c) ~> (pc[c] = "returned" /\ acquired[c])
    /\ [][\A c \in Calls :
            (InFlight(c) /\ pc'[c] = "returned")
            => (~movementHandler'[cam[c]] /\ closed'[c])]_vars

\* C3 witness: a call that acquired the flag has returned through the
\* exception branch of the recording step and another one with its session
\* denied, with the flag cleared and the session closed.
C3_Witness ==
    \E c, d \in Calls :
        /\ acquired[c] /\ pc[c] = "returned" /\ thrown[c] = ErrRecording
        /\ ~movementHandler[cam[c]] /\ closed[c]
        /\ acquired[d] /\ pc[d] = "returned" /\ result[d].message = MsgMaxSessions
        /\ closed[d]

\* C4: a call that ends without having acquired the busy flag leaves the
\* busy flag and the session count of every camera as they were.
C4_NoSideEffects ==
    [][\A c \in Calls :
          (pc[c] # "returned" /\ pc'[c] = "returned" /\ ~acquired[c])
          => (movementHandler' = movementHandler /\ sessionCount' = sessionCount)]_vars

\* The session holders of camera n: its live viewers and the motion
\* handlings that were granted a session and have not returned.
Holders(n) ==
    viewers[n] + Cardinality({c \in Calls : cam[c] = n /\ granted[c] /\ pc[c] # "returned"})

\* C5: the number of session holders of a camera never exceeds the
\* configured maximum.
C5_HoldersWithinMax == \A n \in Cameras : Holders(n) <= MaxSessions

\* The order of the steps of an event with recording active.
RecordingOrder ==
    <<"notification", "webhook", "chatImage", "recording", "chatVideo", "push">>

\* The steps of call c from the notification record on.
Deliveries(c) ==
    SelectSeq(steps[c], LAMBDA s : s \notin {"snapshot", "detection"})

IsPrefix(s, t) == Len(s) <= Len(t) /\ \A i \in 1..Len(s) : s[i] = t[i]

\* What call c is suspended at is the step it invoked last.
Awaiting(c) ==
    CASE pc[c] = "handleNotification" -> "notification"
      [] pc[c] = "sendWebhook" -> "webhook"
      [] pc[c] = "sendTelegram" -> IF recording[c] THEN "chatImage" ELSE "chat"
      [] pc[c] = "handleRecording" -> "recording"
      [] pc[c] = "sendTelegramVideo" -> "chatVideo"
      [] pc[c] = "sendWebpush" -> "push"
      [] OTHER -> Undefined

\* C6: with recording active, session granted and detection not blocking,
\* the steps run one after the other in the order notification record,
\* webhook, chat with image, recording, chat with video, push, each at most
\* once: the steps invoked so far are a prefix of that order, the pending
\* step is the last of them, and an event that ends with a stored recording
\* has run all of them.
C6_StrictOrder ==
    \A c \in Calls :
        (recording[c] /\ granted[c]) =>
            /\ IsPrefix(Deliveries(c), RecordingOrder)
            /\ Awaiting(c) # Undefined =>
                  Deliveries(c)[Len(Deliveries(c))] = Awaiting(c)
            /\ (pc[c] = "returned" /\ result[c].message \in {MsgVideo, MsgSnapshot})
                  => Deliveries(c) = RecordingOrder

\* C6 witness: an event with a stored recording has returned after all six steps.
C6_Witness ==
    \E c \in Calls :
        /\ pc[c] = "returned" /\ recording[c] /\ granted[c]
        /\ result[c].message = MsgVideo
        /\ Deliveries(c) = RecordingOrder

\* C7: when recording is active and the session gate denies the request,
\* handle() returns {error: false, "Max sessions exceeded."} having made no
\* snapshot, detection, notification, webhook, chat, push or recording call.
C7_DeniedDoesNothing ==
    \A c \in Calls :
        /\ (pc[c] = "returned" /\ acquired[c] /\ recording[c] /\ ~granted[c]
              /\ thrown[c] = Undefined)
           => (result[c] = [error |-> "false", message |-> MsgMaxSessions]
                 /\ steps[c] = <<>>)
        /\ (pc[c] = "returned" /\ result[c].message = MsgMaxSessions)
           => (recording[c] /\ ~granted[c] /\ steps[c] = <<>>)
        /\ (acquired[c] /\ recording[c] /\ ~granted[c]) => steps[c] = <<>>

\* C7 witness: a call has returned with the session denied.
C7_Witness ==
    \E c \in Calls :
        /\ pc[c] = "returned" /\ recording[c] /\ ~granted[c]
        /\ result[c] = [error |-> "false", message |-> MsgMaxSessions]

\* The messages of the outcomes that are no error.
BenignMessages == {MsgSent, MsgVideo, MsgSnapshot, MsgMaxSessions}

\* C8: the returned error flag is never undefined; it is false exactly for
\* the outcomes "notification sent", "notification send and video/snapshot
\* stored" and "max sessions exceeded", and true for every other outcome.
C8_ErrorFlagByOutcome ==
    \A c \in Calls :
        pc[c] = "returned" =>
            /\ result[c].error \in {"true", "false"}
            /\ result[c].error = "false" <=> result[c].message \in BenignMessages
            /\ result[c].message = MsgSent => (~recording[c] /\ acquired[c])
            /\ result[c].message \in {MsgVideo, MsgSnapshot} =>
                  (recording[c] /\ granted[c])
            /\ (thrown[c] # Undefined \/ ~acquired[c]) => result[c].error = "true"
            /\ (acquired[c] /\ label[c] = "false") => result[c].error = "true"

\* C8 witness: calls have returned with error = false and with error = true.
C8_Witness ==
    \E c, d \in Calls :
        /\ pc[c] = "returned" /\ result[c] = [error |-> "false", message |-> MsgSent]
        /\ pc[d] = "returned" /\ result[d] = [error |-> "true", message |-> MsgNoLabel]

\* C9 as stated: an exception thrown at any stage, the camera lookup
\* included, makes handle() return {error: true, message: the error's message}.
C9_MessageOfAnyError ==
    \A c \in Calls :
        thrown[c] # Undefined =>
            /\ pc[c] = "returned"
            /\ result[c] = [error |-> "true", message |-> thrown[c]]

\* C9 amended: no exception propagates out of handle(); an exception of the
\* settings load, the motion info, the snapshot, the notification record or
\* the recording makes it return {error: true, message: the error's
\* message}, an exception of the camera lookup makes it return {error: true,
\* "Camera not found."}.
C9_ErrorsAreReturned ==
    \A c \in Calls :
        thrown[c] # Undefined =>
            /\ pc[c] = "returned"
            /\ result[c] = [error |-> "true",
                            message |-> IF thrown[c] = ErrFindByName
                                        THEN MsgNotFound ELSE thrown[c]]

\* C9 witness: exceptions of the camera lookup and of the snapshot have been
\* returned as errors.
C9_Witness ==
    \E c, d \in Calls :
        /\ pc[c] = "returned" /\ thrown[c] = ErrFindByName
        /\ pc[d] = "returned" /\ thrown[d] = ErrSnapshot

\* The step that follows each delivery channel.
NextAfter(ch) ==
    CASE ch = "webhook" -> {"chatImage", "chat"}
      [] ch = "chatImage" -> {"recording"}
      [] ch = "chat" -> {"push"}
      [] ch = "chatVideo" -> {"push"}
      [] OTHER -> {}

\* C10: a failed delivery channel does not keep the following steps from
\* being attempted and does not make the outcome an error: the step after
\* the failed one has been invoked, and a call with failed channels and no
\* exception returns error = false with every step of its path invoked.
C10_ChannelFailuresIsolated ==
    \A c \in Calls :
        /\ \A ch \in failed[c] \ {"push"} :
              \E i \in 1..Len(steps[c]) : steps[c][i] \in NextAfter(ch)
        /\ (pc[c] = "returned" /\ failed[c] # {} /\ thrown[c] = Undefined)
           => /\ result[c].error = "false"
              /\ Deliveries(c) = IF recording[c] THEN RecordingOrder
                                 ELSE <<"notification", "webhook", "chat", "push">>

\* C10 witness: an event whose webhook, chat and push sends all failed has
\* returned with its recording stored.
C10_Witness ==
    \E c \in Calls :
        /\ pc[c] = "returned" /\ recording[c]
        /\ failed[c] = {"webhook", "chatImage", "chatVideo", "push"}
        /\ result[c].error = "false"
        /\ Deliveries(c) = RecordingOrder


\* ======================================================== prebuffer store
\* src/unnamed/part_001: class PreBuffer.

ErrListen == "listen failed"

\* What getVideo() may be asked to replay (requestedPrebuffer), in milliseconds.
RequestedPrebuffers == {0, ClockStep, MaxNow}

\* The type of the a-th atom of the encoder's output (-movflags
\* frag_keyframe+empty_moov+default_base_moof, line 120): ftyp, moov, then
\* fragments of one moof and one mdat each.
atomType(a) ==
    IF a = 1 THEN "ftyp"
    ELSE IF a = 2 THEN "moov"
    ELSE IF a % 2 = 1 THEN "moof" ELSE "mdat"

\* prebuffer[cameraName].process and prebuffer[cameraName].server, as stop()
\* reads them: the object of lines 21-37 has no such fields and nothing assigns
\* them; the handles of line 137 are stored under prebufferSession (line 39).
processOf(i) == Undefined
serverOf(i) == Undefined

\* Lines 100-105 with "if" in place of "while".
evictOne(ring, t) ==
    IF Len(ring) > 0 /\ ring[1].time < t - VideoDuration - Grace
    THEN Tail(ring)
    ELSE ring

\* Lines 100-105: shift entries off the front while the first one is too old.
RECURSIVE evict(_, _)
evict(ring, t) ==
    IF Len(ring) > 0 /\ ring[1].time < t - VideoDuration - Grace
    THEN evict(Tail(ring), t)
    ELSE ring

\* Lines 150-156 in the opposite order.
headerMoovFirst(f, m) ==
    (IF m # 0 THEN <<m>> ELSE <<>>) \o (IF f # 0 THEN <<f>> ELSE <<>>)

\* Lines 150-156: ftyp, then moov, each if set.
header(f, m) ==
    (IF f # 0 THEN <<f>> ELSE <<>>) \o (IF m # 0 THEN <<m>> ELSE <<>>)

\* Lines 161-173: the atoms of the ring written when a viewer is accepted at
\* clock reading t, from entry i on.
RECURSIVE replay(_, _, _, _, _)
replay(ring, i, needMoof, t, requestedPrebuffer) ==
    IF i > Len(ring) THEN <<>>
    ELSE IF ring[i].time < t - requestedPrebuffer
         THEN replay(ring, i + 1, needMoof, t, requestedPrebuffer)
    ELSE IF needMoof /\ atomType(ring[i].atom) # "moof"
         THEN replay(ring, i + 1, needMoof, t, requestedPrebuffer)
    ELSE <<ring[i].atom>> \o replay(ring, i + 1, FALSE, t, requestedPrebuffer)

\* Line 107 moved into the else block of lines 84-98: only atoms that enter
\* the ring are emitted.
emitDataOnly(atom) ==
    [v \in Requests |->
        IF v \in atomListeners /\ atomType(atom) \notin {"ftyp", "moov"}
        THEN Append(written[v], atom)
        ELSE written[v]]

\* Line 107: events.emit('atom', atom) runs writeAtom of every subscribed
\* connection.
emit(atom) ==
    [v \in Requests |->
        IF v \in atomListeners THEN Append(written[v], atom) ELSE written[v]]

\* Lines 177-185 without line 180.
cleanupKeepsListener(gone) ==
    /\ atomListeners' = atomListeners
    /\ killedListeners' = killedListeners \ gone
    /\ socket' = [v \in Requests |-> IF v \in gone THEN "destroyed" ELSE socket[v]]
    /\ closedAt' = [v \in Requests |-> IF v \in gone THEN ingested ELSE closedAt[v]]

\* Lines 177-185: cleanup, run for each connection of the set gone.
cleanup(gone) ==
    /\ atomListeners' = atomListeners \ gone
    /\ killedListeners' = killedListeners \ gone
    /\ socket' = [v \in Requests |-> IF v \in gone THEN "destroyed" ELSE socket[v]]
    /\ closedAt' = [v \in Requests |-> IF v \in gone THEN ingested ELSE closedAt[v]]

ingestVars == <<now, ingested, time, ftyp, moov, prevIdr, idrInterval, prebufferFmp4>>
viewVars == <<atomListeners, killedListeners, socket, written, acceptedAt, replayed,
              closedAt>>
startVars == <<startPc, startIdx, startError, initialised, prebufferSession>>

\* Line 17: start() is called.
StartBegin ==
    /\ startPc = "idle"
    /\ startPc' = IF Len(ConfigCameras) = 0 THEN "done" ELSE "create"
    /\ UNCHANGED <<startIdx, startError, initialised, prebufferSession, encoder,
                   listener, stopped, upstream, ingestVars, viewVars, handlerVars>>

\* Lines 21-37, 58-69 and 111: the camera's object is created, its ingress
\* server is made and asked to listen.
StartCamera ==
    /\ startPc = "create"
    /\ initialised' = initialised \cup {startIdx}
    /\ time' = IF startIdx = Streamed THEN now ELSE time
    /\ startPc' = "listen"
    /\ UNCHANGED <<startIdx, startError, prebufferSession, encoder, listener, stopped,
                   upstream, now, ingested, ftyp, moov, prevIdr, idrInterval,
                   prebufferFmp4, viewVars, handlerVars>>

\* Lines 111-137 and 39: the server listens, the encoder is spawned and both
\* handles are stored as prebufferSession; the loop goes on to the next camera.
StartListened ==
    /\ startPc = "listen"
    /\ listener' = [listener EXCEPT ![startIdx] = "listening"]
    /\ encoder' = [encoder EXCEPT ![startIdx] = "running"]
    /\ prebufferSession' = [prebufferSession EXCEPT ![startIdx] = TRUE]
    /\ startIdx' = startIdx + 1
    /\ startPc' = IF startIdx = Len(ConfigCameras) THEN "done" ELSE "create"
    /\ UNCHANGED <<startError, initialised, stopped, upstream, ingestVars, viewVars,
                   handlerVars>>

\* Line 111 rejects: nothing in startPreBufferSessions or start() catches it.
StartListenFails ==
    /\ startPc = "listen"
    /\ startPc' = "failed"
    /\ startError' = ErrListen
    /\ UNCHANGED <<startIdx, initialised, prebufferSession, encoder, listener, stopped,
                   upstream, ingestVars, viewVars, handlerVars>>

\* Lines 43-55: stop(cameraName).
Stop(i) ==
    /\ encoder' = IF i \in initialised /\ processOf(i) # Undefined
                  THEN [encoder EXCEPT ![i] = "killed"]
                  ELSE encoder
    /\ listener' = IF i \in initialised /\ serverOf(i) # Undefined
                   THEN [listener EXCEPT ![i] = "closed"]
                   ELSE listener
    /\ stopped' = IF prebufferSession[i] THEN stopped \cup {i} ELSE stopped
    /\ UNCHANGED <<startVars, upstream, ingestVars, viewVars, handlerVars>>

\* Lines 69-72: the encoder connects to the ingress server, which stops
\* listening.
UpstreamConnect ==
    /\ listener[Streamed] = "listening"
    /\ encoder[Streamed] = "running"
    /\ upstream = "none"
    /\ upstream' = "open"
    /\ listener' = [listener EXCEPT ![Streamed] = "closed"]
    /\ UNCHANGED <<startVars, encoder, stopped, ingestVars, viewVars, handlerVars>>

\* Date.now() moves on.
Tick ==
    /\ now < MaxNow
    /\ now' = now + ClockStep
    /\ UNCHANGED <<startVars, encoder, listener, stopped, upstream, ingested, time,
                   ftyp, moov, prevIdr, idrInterval, prebufferFmp4, viewVars,
                   handlerVars>>

\* Lines 74-108: one turn of the loop over the parser's atoms.
Ingest ==
    /\ upstream = "open"
    /\ encoder[Streamed] = "running"
    /\ ingested < MaxAtoms
    /\ LET atom == ingested + 1
           data == ftyp # 0 /\ moov # 0
           pushed == IF data
                     THEN Append(prebufferFmp4, [atom |-> atom, time |-> now])
                     ELSE prebufferFmp4
       IN /\ ingested' = atom
          /\ time' = now
          /\ ftyp' = IF ftyp = 0 THEN atom ELSE ftyp
          /\ moov' = IF ftyp # 0 /\ moov = 0 THEN atom ELSE moov
          /\ idrInterval' = IF data /\ atomType(atom) = "mdat" /\ prevIdr # 0
                            THEN now - prevIdr
                            ELSE idrInterval
          /\ prevIdr' = IF data /\ atomType(atom) = "mdat" THEN now ELSE prevIdr
          /\ prebufferFmp4' = evict(pushed, now)
          /\ written' = emit(atom)
    /\ UNCHANGED <<startVars, encoder, listener, stopped, upstream, now,
                   atomListeners, killedListeners, socket, acceptedAt, replayed,
                   closedAt, handlerVars>>

\* Lines 140-143 and 196: getVideo() makes a server and has it listen.
GetVideo(v) ==
    /\ socket[v] = "idle"
    /\ Streamed \in initialised
    /\ socket' = [socket EXCEPT ![v] = "listening"]
    /\ UNCHANGED <<startVars, encoder, listener, stopped, upstream, ingestVars,
                   atomListeners, killedListeners, written, acceptedAt, replayed,
                   closedAt, handlerVars>>

\* Line 194: nobody connected before the timer closed the server.
Timeout(v) ==
    /\ socket[v] = "listening"
    /\ socket' = [socket EXCEPT ![v] = "expired"]
    /\ UNCHANGED <<startVars, encoder, listener, stopped, upstream, ingestVars,
                   atomListeners, killedListeners, written, acceptedAt, replayed,
                   closedAt, handlerVars>>

\* Lines 143-191: the viewer connects; header, replay of the ring and both
\* subscriptions happen in one turn of the event loop.
Connect(v) ==
    /\ socket[v] = "listening"
    /\ \E requestedPrebuffer \in RequestedPrebuffers :
          written' = [written EXCEPT ![v] =
                         header(ftyp, moov)
                         \o replay(prebufferFmp4, 1, TRUE, now, requestedPrebuffer)]
    /\ socket' = [socket EXCEPT ![v] = "open"]
    /\ atomListeners' = atomListeners \cup {v}
    /\ killedListeners' = killedListeners \cup {v}
    /\ acceptedAt' = [acceptedAt EXCEPT ![v] = ingested]
    /\ replayed' = [replayed EXCEPT ![v] = Len(written'[v])]
    /\ UNCHANGED <<startVars, encoder, listener, stopped, upstream, ingestVars,
                   closedAt, handlerVars>>

\* Lines 189-191: the viewer's socket ends, closes or errors.
SocketEnd(v) ==
    /\ socket[v] = "open"
    /\ cleanup({v})
    /\ UNCHANGED <<startVars, encoder, listener, stopped, upstream, ingestVars,
                   written, acceptedAt, replayed, handlerVars>>

\* Line 187: 'killed' is emitted on the camera's events.
Killed ==
    /\ Streamed \in initialised
    /\ cleanup(killedListeners)
    /\ UNCHANGED <<startVars, encoder, listener, stopped, upstream, ingestVars,
                   written, acceptedAt, replayed, handlerVars>>

NextPrebuffer ==
    \/ StartBegin
    \/ StartCamera
    \/ StartListened
    \/ StartListenFails
    \/ \E i \in DOMAIN ConfigCameras : Stop(i)
    \/ UpstreamConnect
    \/ Tick
    \/ Ingest
    \/ \E v \in Requests : GetVideo(v)
    \/ \E v \in Requests : Timeout(v)
    \/ \E v \in Requests : Connect(v)
    \/ \E v \in Requests : SocketEnd(v)
    \/ Killed

PrebufferSpec == Init /\ [][NextPrebuffer]_vars


\* ---------------------------------------------------- prebuffer properties

\* C13: after every ingested atom (clock readings never go back) the ring
\* holds only entries with time >= now - videoDuration - 100, now being the
\* clock reading of that atom, and its entries are in non-decreasing time
\* order.
C13_RingWithinWindow ==
    /\ \A i \in 1..Len(prebufferFmp4) :
          prebufferFmp4[i].time >= time - VideoDuration - Grace
    /\ \A i, j \in 1..Len(prebufferFmp4) :
          i <= j => prebufferFmp4[i].time <= prebufferFmp4[j].time

\* Eviction has happened and left entries of different clock readings: the
\* first fragment is gone from the front of the ring, which still holds an
\* entry older than the last atom.
C13_Witness ==
    /\ Len(prebufferFmp4) >= 2
    /\ prebufferFmp4[1].atom >= 5
    /\ prebufferFmp4[1].time < time
    /\ ingested = MaxAtoms


\* The atoms a connection is owed from the broadcast: those ingested after it
\* was accepted and before its cleanup.
owed(v) ==
    IF socket[v] = "open" THEN ingested - acceptedAt[v] ELSE closedAt[v] - acceptedAt[v]

\* C11: on every accepted connection no atom is written twice, and what is
\* written is the header and ring replay of the moment of acceptance followed
\* by exactly the atoms ingested after acceptance and before cleanup, each once
\* and in ingestion order.
C11_NoDuplicateNoGap ==
    \A v \in Requests :
        socket[v] \in {"open", "destroyed"} =>
            /\ Len(written[v]) = replayed[v] + owed(v)
            /\ \A k \in 1..owed(v) : written[v][replayed[v] + k] = acceptedAt[v] + k
            /\ \A i, j \in 1..Len(written[v]) : i < j => written[v][i] < written[v][j]

\* A viewer accepted in mid-stream was replayed header and ring atoms and has
\* been sent live atoms since; another connection was cleaned up while atoms
\* kept coming.
C11_Witness ==
    \E v, w \in Requests :
        /\ socket[v] = "open"
        /\ replayed[v] >= 4
        /\ ingested >= acceptedAt[v] + 2
        /\ socket[w] = "destroyed"
        /\ closedAt[w] > acceptedAt[w]
        /\ ingested > closedAt[w]


\* The positions of a connection's output that hold data atoms.
dataAt(v) == {i \in 1..Len(written[v]) : written[v][i] \notin {ftyp, moov}}

\* C12: ftyp and moov are each assigned at most once, and on every connection,
\* whenever it was accepted, the ftyp atom and then the moov atom are written
\* before any data atom, be it replayed from the ring or broadcast live.
C12_HeaderOnceAndFirst ==
    /\ [][/\ ftyp # 0 => ftyp' = ftyp
          /\ moov # 0 => moov' = moov]_vars
    /\ [](\A v \in Requests : \A i \in dataAt(v) :
              \E j, k \in 1..Len(written[v]) :
                  /\ j < k /\ k < i
                  /\ ftyp # 0 /\ written[v][j] = ftyp
                  /\ moov # 0 /\ written[v][k] = moov)

\* One connection was accepted before ftyp was known and another one between
\* ftyp and moov; both have been written data atoms since, and ingestion went
\* on after both headers were set.
C12_Witness ==
    \E v, w \in Requests :
        /\ socket[v] = "open" /\ acceptedAt[v] = 0
        /\ socket[w] = "open" /\ acceptedAt[w] = 1
        /\ dataAt(v) # {} /\ dataAt(w) # {}
        /\ ingested >= 4


\* C14: once stop(camera) has been called for a camera whose pipeline start()
\* had started, that camera's encoder process no longer runs and its ingress
\* server no longer listens; further calls change nothing.
C14_StopTerminates ==
    \A i \in stopped : encoder[i] # "running" /\ listener[i] # "listening"


\* The live-view connections that were accepted and have not terminated.
liveConnections == {v \in Requests : socket[v] = "open"}

\* C15: whichever way a live-view session terminates (its socket ends, closes
\* or errors, or 'killed' is emitted for the camera), its 'atom' subscription
\* is removed and its socket destroyed in that step; nothing is written to a
\* destroyed socket; and the 'atom' subscribers of the camera are at all times
\* exactly its accepted connections that have not terminated.
C15_CleanupOnEveryPath ==
    /\ [](/\ atomListeners = liveConnections
          /\ Cardinality(atomListeners) = Cardinality(liveConnections))
    /\ [][\A v \in Requests :
             /\ (socket[v] = "open" /\ (SocketEnd(v) \/ Killed)) =>
                    (socket'[v] = "destroyed" /\ v \notin atomListeners')
             /\ socket[v] = "destroyed" =>
                    (socket'[v] = "destroyed" /\ written'[v] = written[v])]_vars

\* One session has terminated and atoms were ingested afterwards, while the
\* other connection is still open and subscribed.
C15_Witness ==
    \E v, w \in Requests :
        /\ socket[v] = "destroyed"
        /\ Len(written[v]) > 0
        /\ ingested > closedAt[v]
        /\ socket[w] = "open"
        /\ atomListeners = {w}


\* C16: on every live-view connection the first data atom written, replayed
\* or live, is a 'moof' atom.
C16_FirstDataIsMoof ==
    \A v \in Requests : \A i \in dataAt(v) :
        (\A j \in dataAt(v) : i <= j) => atomType(written[v][i]) = "moof"


\* ---------------------------------------------------- detection and quota

\* C17: detection gating is three-way.  The detection service is invoked only
\* for a camera whose available quota is positive (with recognition enabled
\* and the quota state active); when it is not invoked the label is null and
\* the event proceeds to the notification record; when it is invoked and
\* answers with a matching label the event proceeds; when the label is false
\* the call returns error = true and has made no notification-record,
\* webhook, chat, push or recording call.
C17_ThreeWayGating ==
    [][\A c \in Calls :
          /\ (pc[c] # "detectLabels" /\ pc'[c] = "detectLabels")
                => (aws.contingent_total > 0 /\ awsLeft[c] > 0)
          /\ (pc[c] = "handleSnapshot" /\ thrown'[c] = Undefined
                /\ pc'[c] \notin {"handleSnapshot", "detectLabels"})
                => (label'[c] = "null" /\ pc'[c] = "handleNotification")
          /\ (pc[c] = "handleAWS" /\ label[c] = "person" /\ pc'[c] # "handleAWS")
                => label'[c] = "person"
          /\ (pc[c] = "handleImageDetection" /\ label[c] = "person"
                /\ pc'[c] # "handleImageDetection")
                => pc'[c] = "handleNotification"
          /\ (pc[c] = "handleImageDetection" /\ label[c] = "false"
                /\ pc'[c] # "handleImageDetection")
                => (/\ pc'[c] = "returned"
                    /\ result'[c] = [error |-> "true", message |-> MsgNoLabel]
                    /\ Deliveries(c)' = <<>>)]_vars

\* C20: a call whose recording persistence threw has still attempted the push
\* notification by the time it returns.
C20_RecordingFailureIsLocal ==
    \A c \in Calls :
        (pc[c] = "returned" /\ thrown[c] = ErrRecording)
            => \E i \in 1..Len(steps[c]) : steps[c][i] = "push"


\* SettingsDB.aws.contingent_total where the quota is followed over several
\* detections.
QuotaTotal == 2

InitQuota ==
    /\ InitGate
    /\ aws = [contingent_total |-> QuotaTotal, contingent_left |-> QuotaTotal,
              last_rekognition |-> "none"]
    /\ InitCalls
    /\ InitPrebuffer

NextQuota ==
    \/ NextHandler
    \/ MonthChange

\* Motion handlings and month changes on a quota of QuotaTotal detections.
QuotaSpec == InitQuota /\ [][NextQuota]_vars

\* The quota a handling finds available in the stored state a: the stored
\* contingent_left if the last detection was in the current month, the whole
\* contingent otherwise.
available(a) ==
    IF a.last_rekognition = "this" THEN a.contingent_left ELSE a.contingent_total

\* The persisted quota after the patch that follows a detection of call c.
patched(c) ==
    [aws EXCEPT !.contingent_left = awsLeft[c] - 1, !.last_rekognition = "this"]

\* C18: after a successful detection-service call of a handling the persisted
\* quota is written once, with contingent_left = (quota available at the start
\* of that handling) - 1 and last_rekognition = now (if that write fails the
\* state stays as it was and the label becomes false); a detection that throws
\* or is not made for lack of credentials leaves the persisted quota as it
\* was, and nothing but such a patch (or the passing of the month) changes it.
C18_QuotaPatchedOnSuccess ==
    [][/\ \A c \in Calls :
             /\ (pc[c] = "handleAWS" /\ pc'[c] # "handleAWS")
                   => \/ aws' = patched(c)
                      \/ aws' = aws /\ label'[c] = "false"
             /\ (pc[c] \in {"handleSnapshot", "detectLabels"}
                   /\ pc'[c] = "handleImageDetection")
                   => aws' = aws
       /\ aws' # aws
             => \/ \E c \in Calls :
                      /\ pc[c] = "handleAWS" /\ pc'[c] = "handleImageDetection"
                      /\ aws' = patched(c)
                \/ aws' = [aws EXCEPT !.last_rekognition = "prev"]]_vars

\* A handling whose detection matched has patched the quota to one less than
\* it found, while the detection of the other handling threw and left the
\* quota alone.
C18_Witness ==
    \E c, d \in Calls :
        /\ pc[c] = "handleImageDetection" /\ label[c] = "person"
        /\ awsLeft[c] = QuotaTotal
        /\ aws.contingent_left = awsLeft[c] - 1 /\ aws.last_rekognition = "this"
        /\ pc[d] = "handleImageDetection" /\ label[d] = "false"
        /\ awsLeft[d] = QuotaTotal

\* C19: the quota a handling uses for gating is contingent_total when the
\* stored last_rekognition is unset or of an earlier month, whatever the
\* stored contingent_left, and the stored contingent_left when
\* last_rekognition is of the current month; and as long as the month does
\* not change the available quota never increases.
C19_RolloverAndNoIncrease ==
    [][/\ \A c \in Calls :
             (pc[c] = "show" /\ pc'[c] = "getMotionInfo")
                => awsLeft'[c] = available(aws)
       /\ ~(aws.last_rekognition = "this" /\ aws'.last_rekognition = "prev")
             => available(aws') <= available(aws)]_vars


\* ------------------------------------------------------- start of the store

\* C21: when start() has ended because the pipeline of one configured camera
\* failed to start, every other configured camera, also one later in the
\* configuration order, has been initialised and its pipeline started; only
\* the failing camera is without a pipeline.
C21_StartContinuesAfterFailure ==
    startPc = "failed" =>
        \A i \in DOMAIN ConfigCameras :
            i # startIdx =>
                (i \in initialised /\ prebufferSession[i] /\ encoder[i] = "running")


\* ------------------------------------------------- quota under concurrency

\* Motion handlings within one calendar month, on a quota of QuotaTotal
\* detections.
MonthSpec == InitQuota /\ [][NextHandler]_vars

\* The handlings other than c whose detection has succeeded and whose quota
\* patch is still to be written.
unpatched(c) == {d \in Calls \ {c} : pc[d] = "handleAWS"}

\* C22: when motion events are handled concurrently on the shared quota
\* within one calendar month, no
\* detection-service call succeeds beyond the contingent (every successful
\* call finds a unit of the persisted available quota that no other
\* successful call is about to consume), and the patch written after a
\* successful call leaves the persisted contingent_left exactly one below the
\* quota available just before it (no update is lost between the read at the
\* start of handle() and the write-back).
C22_QuotaNeverOverdrawn ==
    [][\A c \in Calls :
          /\ (pc[c] = "detectLabels" /\ pc'[c] = "handleAWS")
                => available(aws) - Cardinality(unpatched(c)) > 0
          /\ (pc[c] = "handleAWS" /\ pc'[c] = "handleImageDetection"
                /\ label[c] = "person" /\ label'[c] = "person")
                => aws'.contingent_left = available(aws) - 1]_vars

====
